---------------------------- MODULE Spec2Model ----------------------------
(***************************************************************************)
(* Portfolio optimisation engine of philp97/Frontier_Project.              *)
(*                                                                         *)
(* Modelled code:                                                          *)
(*   PortfolioStats                       (portfolio package)              *)
(*   randomWeights, RunMonteCarlo,                                         *)
(*   computeFrontierLineFromSimulations   (optimizer.go, sample-filter     *)
(*                                         version, lines 384-512)         *)
(*   computeFrontierLine, minVarForReturn (optimizer.go, the two gradient  *)
(*                                         versions, lines 86-192 and      *)
(*                                         279-382)                        *)
(*   Returns, mean, PrepareAssets         (portfolio package)              *)
(*   AnalyzeHandler                       (handlers.go)                    *)
(*                                                                         *)
(* Specifications:                                                         *)
(*   Spec            two calls of RunMonteCarlo, one after the other       *)
(*   SpecFrontier    one call, small frontier point budgets                *)
(*   SpecStats       one call of PortfolioStats                            *)
(*   SpecMinVar      one call of minVarForReturn                           *)
(*   SpecCurrent     the current-portfolio comparison of AnalyzeHandler    *)
(*   SpecReturns     one call of Returns                                   *)
(*   SpecAssets      one call of PrepareAssets                             *)
(*   SpecHandler     AnalyzeHandler with its fetch goroutines              *)
(*   SpecConcurrent  two calls of RunMonteCarlo that interleave            *)
(*   SpecResample    the resampling step of the extractor on a given front *)
(*   SpecSweep       one call of computeFrontierLine                       *)
(*                                                                         *)
(* float64 values are modelled exactly:                                    *)
(*   - a "rational" [n, d] in lowest terms (d > 0), with d = 0 standing    *)
(*     for +Inf / -Inf (n = 1 / n = -1);                                   *)
(*   - a "surd" [sgn, sq] standing for sgn * sqrt(sq), sq a rational >= 0, *)
(*     which is what math.Sqrt and a quotient by a square root produce.    *)
(* Rounding of float64 is not modelled.                                    *)
(***************************************************************************)
EXTENDS Integers, Sequences, FiniteSets, TLC

(***************************************************************************)
(* Bounds of the model.                                                    *)
(***************************************************************************)
MaxN == 2
MaxSims == 3
MaxDraw == 2
MaxMu == 1
MaxCov == 1
MaxRf == 1
MaxPts == 3
MaxWNum == 2

\* iterations of minVarForReturn that are followed: the exact weights of the
\* normalising version leave the 32-bit integers in its second iteration
MaxItersNormalize == 1

MaxItersClamp == 2

\* target returns are the halves 0, 1/2, ..., MaxTarget/2
MaxTarget == 3

\* holdings of a current portfolio are the integers -1..MaxHolding
MaxHolding == 2

\* prices are 2^0 .. 2^MaxExp, price series have up to MaxPrices prices
MaxExp == 2

MaxPrices == 4

\* a request names up to MaxTickers tickers
MaxTickers == 3

\* simulation counts of interleaved runs
MaxConcSims == 2

\* the resampling step is given fronts of up to MaxFront points and point
\* budgets 2..MaxBudget
MaxFront == 12

\* and a front of LongFront points, more than the program's budget of 60
LongFront == 64

MaxBudget == 10

\* computeFrontierLine sweeps steps = 1..MaxSteps
MaxSteps == 2

\* the covariance matrices of a sweep are the small ones and their multiples
\* by LargeCov, under which one gradient step takes every weight below zero
LargeCov == 1024

(***************************************************************************)
(* Program constants.                                                      *)
(***************************************************************************)
Seed == 42
FrontierBudget == 60

\* the loop bounds, decay periods and tolerance of minVarForReturn
ItersNormalize == 3000

ItersClamp == 5000

DecayNormalize == 500

DecayClamp == 1000

ProjectionPasses == 10

ReturnTolInverse == 100000000

\* PrepareAssets: tradingDays and the initial minLen (math.MaxInt32)
TradingDays == 252

MaxInt32 == 2147483647

\* AnalyzeHandler: ticker count limits, default and largest history in years
MinTickers == 2

TickerLimit == 20

DefaultYears == 2

YearsLimit == 100

VARIABLES
    meanReturns,   \* annualised mean return per asset (argument)
    covMatrix,     \* covariance matrix (argument)
    riskFreeRate,  \* risk-free rate (argument)
    numSims,       \* simulation count (argument)
    maxPoints,     \* frontier point budget handed to the extractor
    stream,        \* the outputs of the generator seeded with Seed, in order
    pc,            \* per run: "idle", "loop", "done"
    rng,           \* per run: the run's own generator
    s,             \* per run: loop counter of RunMonteCarlo
    sims,          \* per run: the portfolios sampled so far
    maxSharpe,     \* per run: running best-Sharpe portfolio
    minVar,        \* per run: running lowest-risk portfolio
    result,        \* per run: the OptimizationResult returned
    stWeights,     \* weight vector of a direct PortfolioStats call
    stOut,         \* what that call returned
    mvVariant,     \* minVarForReturn: which of the two versions runs
    mvTarget,      \* minVarForReturn: targetReturn (argument)
    mvW,           \* minVarForReturn: the weight vector w
    mvLr,          \* minVarForReturn: the step size lr
    mvIter,        \* minVarForReturn: the loop counter iter
    mvOut,         \* minVarForReturn: <<>> while running, then <<w>>, w empty for nil
    CurrentPortfolio,  \* req.CurrentPortfolio: ticker -> holding
    validTickers,  \* AnalyzeHandler: the tickers whose fetch succeeded, in order
    cpPc,          \* current-portfolio comparison: "idle", "start", "summed", "done"
    cpWeights,     \* its local weights
    cpSum,         \* its local sum
    cpScored,      \* the weight vectors handed to PortfolioStats by it
    CurrentPortfolioStats, \* resp.CurrentPortfolioStats: <<>> for the nil pointer
    rtPrices,      \* Returns: the argument prices
    rtOut,         \* Returns: <<>> before the call, then <<outcome>>
    priceData,     \* PrepareAssets: the Closes of each asset (argument)
    paPc,          \* PrepareAssets: "idle", "start", "trim", "stats", "done", "panic"
    allReturns,    \* PrepareAssets: local allReturns
    minLen,        \* PrepareAssets: local minLen
    returnMatrix,  \* PrepareAssets: result returnMatrix
    paMeanReturns, \* PrepareAssets: result meanReturns
    paCovMatrix,   \* PrepareAssets: result covMatrix
    paStats,       \* PrepareAssets: result stats
    rsEfficient,   \* the resampling step: the filtered front it is given
    rsOut,         \* the resampling step: <<>> or <<the returned points>>
    minRet,        \* computeFrontierLine: argument minRet
    maxRet,        \* computeFrontierLine: argument maxRet
    steps,         \* computeFrontierLine: argument steps
    swPc,          \* computeFrontierLine: position (idle, target, solve, done)
    swI,           \* computeFrontierLine: loop variable i
    points,        \* computeFrontierLine: local points
    swOut,         \* computeFrontierLine: <<>> or <<the returned points>>
    reqTickers,    \* AnalyzeHandler: req.Tickers, each a sequence of characters
    reqYears,      \* AnalyzeHandler: req.Years
    hPc,           \* AnalyzeHandler: position of the handler goroutine
    years,         \* AnalyzeHandler: local years
    tickers,       \* AnalyzeHandler: local tickers (trimmed, upper-cased, distinct)
    spawned,       \* AnalyzeHandler: fetch goroutines started so far
    taskPc,        \* per fetch goroutine: "fetch", "deferred", "done"
    results,       \* AnalyzeHandler: the result slots
    wg,            \* AnalyzeHandler: the WaitGroup counter
    fetched,       \* AnalyzeHandler: local priceData (the tickers it holds data of)
    errMsgs,       \* AnalyzeHandler: local errMsgs (the tickers that failed)
    calls,         \* the engine functions the handler has called, in order
    completion,    \* history: the goroutines in the order they stored a result
    response       \* what was written to the client: "none", "error", "ok"

mcVars == <<meanReturns, covMatrix, riskFreeRate, numSims, maxPoints, stream,
            pc, rng, s, sims, maxSharpe, minVar, result, stWeights, stOut>>

mvVars == <<mvVariant, mvTarget, mvW, mvLr, mvIter, mvOut>>

cpLocals == <<CurrentPortfolio, cpPc, cpWeights, cpSum, cpScored,
              CurrentPortfolioStats>>

cpVars == <<validTickers, cpLocals>>

hdVars == <<reqTickers, reqYears, hPc, years, tickers, spawned, taskPc, results,
            wg, fetched, errMsgs, calls, completion, response>>

rtVars == <<rtPrices, rtOut>>

paVars == <<priceData, paPc, allReturns, minLen, returnMatrix, paMeanReturns,
            paCovMatrix, paStats>>

rsVars == <<rsEfficient, rsOut>>

swVars == <<minRet, maxRet, steps, swPc, swI, points, swOut>>

extVars == <<mvVars, cpVars, rtVars, paVars, hdVars, rsVars, swVars>>

vars == <<mcVars, extVars>>

(***************************************************************************)
(* float64 arithmetic on rationals.                                        *)
(***************************************************************************)
Abs(x) == IF x < 0 THEN -x ELSE x

Sign(x) == IF x > 0 THEN 1 ELSE IF x < 0 THEN -1 ELSE 0

RECURSIVE GCD(_, _)
GCD(a, b) == IF b = 0 THEN a ELSE GCD(b, a % b)

Rat(n, d) ==
    LET g == GCD(Abs(n), Abs(d))
        sg == Sign(d)
    IN  [n |-> (sg * n) \div g, d |-> (sg * d) \div g]

FromInt(k) == [n |-> k, d |-> 1]

Zero == FromInt(0)

PosInf == [n |-> 1, d |-> 0]

NegInf == [n |-> -1, d |-> 0]

\* the common factor of two integers, taken out before a product is formed
\* so that the products stay small
Factor(x, y) == IF x = 0 \/ y = 0 THEN 1 ELSE GCD(Abs(x), Abs(y))

Common(a, b) == Factor(a.d, b.d)

RAdd(a, b) ==
    LET g == Common(a, b)
    IN  Rat(a.n * (b.d \div g) + b.n * (a.d \div g), (a.d \div g) * b.d)

RSub(a, b) ==
    LET g == Common(a, b)
    IN  Rat(a.n * (b.d \div g) - b.n * (a.d \div g), (a.d \div g) * b.d)

RMul(a, b) ==
    LET g == Factor(a.n, b.d)
        h == Factor(b.n, a.d)
    IN  Rat((a.n \div g) * (b.n \div h), (a.d \div h) * (b.d \div g))

\* a / b for b # 0
RDiv(a, b) ==
    LET g == Factor(a.n, b.n)
        h == Factor(a.d, b.d)
    IN  Rat((a.n \div g) * (b.d \div h), (a.d \div h) * (b.n \div g))

\* a < b, infinities included
RLess(a, b) ==
    IF a.d = 0 \/ b.d = 0
    THEN a # b /\ (a = NegInf \/ b = PosInf)
    ELSE a.n * b.d < b.n * a.d

RLeq(a, b) == a = b \/ RLess(a, b)

(***************************************************************************)
(* The same operations with the IEEE special values: [n |-> 0, d |-> 0] is *)
(* the float64 NaN, a zero divisor is +0.                                  *)
(***************************************************************************)
FNaN == [n |-> 0, d |-> 0]

FNeg(a) == [n |-> -a.n, d |-> a.d]

FAdd(a, b) ==
    IF a = FNaN \/ b = FNaN THEN FNaN
    ELSE IF a.d = 0 /\ b.d = 0 THEN (IF a = b THEN a ELSE FNaN)
    ELSE IF a.d = 0 THEN a
    ELSE IF b.d = 0 THEN b
    ELSE RAdd(a, b)

FSub(a, b) == FAdd(a, FNeg(b))

FMul(a, b) ==
    IF a = FNaN \/ b = FNaN THEN FNaN
    ELSE IF a.d = 0 \/ b.d = 0
         THEN (IF a.n = 0 \/ b.n = 0 THEN FNaN
               ELSE [n |-> Sign(a.n) * Sign(b.n), d |-> 0])
    ELSE RMul(a, b)

FDiv(a, b) ==
    IF a = FNaN \/ b = FNaN THEN FNaN
    ELSE IF a.d = 0 /\ b.d = 0 THEN FNaN
    ELSE IF a.d = 0 THEN [n |-> a.n * (IF b.n < 0 THEN -1 ELSE 1), d |-> 0]
    ELSE IF b.d = 0 THEN Zero
    ELSE IF b.n = 0 THEN (IF a.n = 0 THEN FNaN ELSE [n |-> Sign(a.n), d |-> 0])
    ELSE RDiv(a, b)

\* the Go comparison a == b: false when either side is NaN
FEq(a, b) == a # FNaN /\ b # FNaN /\ a = b

\* math.Log, in units of ln 2: the finite positive arguments of the model are
\* powers of two
RECURSIVE Log2(_)
Log2(q) ==
    IF q.n = q.d THEN 0
    ELSE IF q.n > q.d THEN 1 + Log2(RDiv(q, FromInt(2)))
    ELSE Log2(RMul(q, FromInt(2))) - 1

Log(q) ==
    IF q = FNaN \/ q.n < 0 THEN FNaN
    ELSE IF q.n = 0 THEN NegInf
    ELSE IF q.d = 0 THEN PosInf
    ELSE FromInt(Log2(q))

\* math.Exp on a multiple k of ln 2
RECURSIVE Exp(_)
Exp(k) ==
    IF k = 0 THEN FromInt(1)
    ELSE IF k > 0 THEN RMul(FromInt(2), Exp(k - 1))
    ELSE RDiv(Exp(k + 1), FromInt(2))

(***************************************************************************)
(* Surds: sgn * sqrt(sq).  NaN is the result of math.Sqrt on a negative    *)
(* number; every comparison with NaN is false.                             *)
(***************************************************************************)
NaN == [sgn |-> 0, sq |-> [n |-> 0, d |-> 0]]

SZero == [sgn |-> 0, sq |-> Zero]

SPosInf == [sgn |-> 1, sq |-> PosInf]

SNegInf == [sgn |-> -1, sq |-> PosInf]

\* math.Sqrt
Sqrt(q) == IF q.n < 0 THEN NaN ELSE [sgn |-> Sign(q.n), sq |-> q]

\* a < b on surds
SLess(a, b) ==
    /\ a # NaN
    /\ b # NaN
    /\ IF a.sgn # b.sgn THEN a.sgn < b.sgn
       ELSE IF a.sgn = 1 THEN RLess(a.sq, b.sq)
       ELSE IF a.sgn = -1 THEN RLess(b.sq, a.sq)
       ELSE FALSE

SLeq(a, b) == a # NaN /\ b # NaN /\ (a = b \/ SLess(a, b))

\* x / v for a rational x and a surd v > 0
SQuot(x, v) ==
    IF x.n = 0 THEN SZero
    ELSE [sgn |-> Sign(x.n), sq |-> RDiv(RMul(x, x), v.sq)]


(***************************************************************************)
(* PortfolioStats: annual return, volatility and Sharpe ratio of a weight  *)
(* vector.                                                                 *)
(***************************************************************************)
\* for i := 0; i < n; i++ { ret += weights[i] * meanReturns[i] }
RECURSIVE RetLoop(_, _, _, _)
RetLoop(i, acc, weights, mu) ==
    IF i > Len(weights) THEN acc
    ELSE RetLoop(i + 1, RAdd(acc, RMul(weights[i], mu[i])), weights, mu)

\* variant: the variance keeps the diagonal terms only
RECURSIVE VarInnerDiagonal(_, _, _, _, _)
VarInnerDiagonal(i, j, acc, weights, cov) ==
    IF j > Len(weights) THEN acc
    ELSE VarInnerDiagonal(i, j + 1,
                          IF i = j
                          THEN RAdd(acc, RMul(RMul(weights[i], weights[j]), cov[i][j]))
                          ELSE acc,
                          weights, cov)

\* for j := 0; j < n; j++ { variance += weights[i]*weights[j]*covMatrix[i][j] }
RECURSIVE VarInner(_, _, _, _, _)
VarInner(i, j, acc, weights, cov) ==
    IF j > Len(weights) THEN acc
    ELSE VarInner(i, j + 1,
                  RAdd(acc, RMul(RMul(weights[i], weights[j]), cov[i][j])),
                  weights, cov)

\* for i := 0; i < n; i++ { ...inner loop... }
RECURSIVE VarLoop(_, _, _, _)
VarLoop(i, acc, weights, cov) ==
    IF i > Len(weights) THEN acc
    ELSE VarLoop(i + 1, VarInner(i, 1, acc, weights, cov), weights, cov)

\* variant: the quotient is taken without the vol > 0 guard
SharpeOfUnguarded(ret, vol, rf) ==
    LET x == RSub(ret, rf)
    IN  IF vol = SZero
        THEN IF x.n = 0 THEN NaN ELSE [sgn |-> Sign(x.n), sq |-> PosInf]
        ELSE SQuot(x, vol)

\* if vol > 0 { sharpe = (ret - riskFreeRate) / vol }; sharpe is 0 otherwise
SharpeOf(ret, vol, rf) ==
    IF SLess(SZero, vol) THEN SQuot(RSub(ret, rf), vol) ELSE SZero

PortfolioStats(weights, mu, cov, rf) ==
    LET ret == RetLoop(1, Zero, weights, mu)
        variance == VarLoop(1, Zero, weights, cov)
        vol == Sqrt(variance)
    IN  [ret |-> ret, vol |-> vol, sharpe |-> SharpeOf(ret, vol, rf)]

(***************************************************************************)
(* The random generator.  rand.New(rand.NewSource(seed)) is a generator of *)
(* its own, at the start of the stream its seed determines; `stream` holds *)
(* that stream for Seed.  Past the modelled horizon the stream yields 1.   *)
(***************************************************************************)
NoRng == [seed |-> 0, pos |-> 0]

\* variant: one generator shared by the runs, each going on where run 1 is
NewSourceShared(seed) == [seed |-> seed, pos |-> rng[1].pos]

NewSource(seed) == [seed |-> seed, pos |-> 0]

\* rng.ExpFloat64(): the next output, a positive number
ExpFloat64(g) ==
    IF g.pos < Len(stream) THEN FromInt(stream[g.pos + 1]) ELSE FromInt(1)

Advance(g) == [g EXCEPT !.pos = @ + 1]

\* first loop of randomWeights: w[i] = rng.ExpFloat64(); sum += w[i]
RECURSIVE DrawLoop(_, _, _, _, _)
DrawLoop(i, n, w, sum, g) ==
    IF i > n THEN [w |-> w, sum |-> sum, rng |-> g]
    ELSE LET e == ExpFloat64(g)
         IN  DrawLoop(i + 1, n, Append(w, e), RAdd(sum, e), Advance(g))

\* variant: the weights are divided by the number of assets
NormalizeByCount(w, sum) == [i \in 1..Len(w) |-> RDiv(w[i], FromInt(Len(w)))]

\* second loop of randomWeights: w[i] /= sum
Normalize(w, sum) == [i \in 1..Len(w) |-> RDiv(w[i], sum)]

\* randomWeights(n, rng): the weights and the generator after the draws
randomWeights(n, g) ==
    LET d == DrawLoop(1, n, <<>>, Zero, g)
    IN  [w |-> Normalize(d.w, d.sum), rng |-> d.rng]

(***************************************************************************)
(* SimulatedPortfolio, FrontierPoint, OptimizationResult.                  *)
(***************************************************************************)
SimulatedPortfolio(w, ret, vol, sharpe) ==
    [Weights |-> w, Return |-> ret, Risk |-> vol, Sharpe |-> sharpe]

\* the zero value of SimulatedPortfolio
ZeroPortfolio == SimulatedPortfolio(<<>>, Zero, SZero, SZero)

\* maxSharpe := SimulatedPortfolio{Sharpe: math.Inf(-1)}
InitMaxSharpe == [ZeroPortfolio EXCEPT !.Sharpe = SNegInf]

\* minVar := SimulatedPortfolio{Risk: math.Inf(1)}
InitMinVar == [ZeroPortfolio EXCEPT !.Risk = SPosInf]

\* variant: the weights are left out of the point
FrontierPointBare(p) == [Return |-> p.Return, Risk |-> p.Risk, Weights |-> <<>>]

FrontierPoint(p) == [Return |-> p.Return, Risk |-> p.Risk, Weights |-> p.Weights]

NoResult ==
    [MonteCarloPoints |-> <<>>, FrontierPoints |-> <<>>,
     MaxSharpe |-> ZeroPortfolio, MinVariance |-> ZeroPortfolio]

(***************************************************************************)
(* computeFrontierLineFromSimulations.                                     *)
(***************************************************************************)
\* variant: the risks are compared the other way round
SimLessDescending(a, b) ==
    IF a.Risk = b.Risk THEN RLess(a.Return, b.Return)
    ELSE SLess(b.Risk, a.Risk)

\* the less function handed to sort.Slice
SimLess(a, b) ==
    IF a.Risk = b.Risk THEN RLess(a.Return, b.Return)
    ELSE SLess(a.Risk, b.Risk)

\* one insertion: x moves left while it is less than its left neighbour
RECURSIVE InsertSorted(_, _)
InsertSorted(sorted, x) ==
    IF Len(sorted) > 0 /\ SimLess(x, sorted[Len(sorted)])
    THEN Append(InsertSorted(SubSeq(sorted, 1, Len(sorted) - 1), x),
                sorted[Len(sorted)])
    ELSE Append(sorted, x)

\* sort.Slice on a copy of sims (insertion sort, which sort.Slice runs on
\* slices of at most 12 elements)
RECURSIVE SortSlice(_)
SortSlice(ps) ==
    IF Len(ps) = 0 THEN <<>>
    ELSE InsertSorted(SortSlice(SubSeq(ps, 1, Len(ps) - 1)), ps[Len(ps)])

\* variant: the scan starts from a best return of zero
InitBestReturnZero == Zero

\* bestReturn := math.Inf(-1)
InitBestReturn == NegInf

\* the scan: keep p when p.Return > bestReturn
RECURSIVE Scan(_, _, _, _)
Scan(i, sorted, bestReturn, efficient) ==
    IF i > Len(sorted) THEN efficient
    ELSE IF RLess(bestReturn, sorted[i].Return)
         THEN Scan(i + 1, sorted, sorted[i].Return,
                   Append(efficient, FrontierPoint(sorted[i])))
         ELSE Scan(i + 1, sorted, bestReturn, efficient)

\* variant: a stride of one, the first k points of the front
ResampleIdxPrefix(i, len, k) == i

\* idx := int(math.Round(float64(i) * step)), step = (len-1)/(maxPoints-1),
\* clamped to len-1; i and the index count from 0
ResampleIdx(i, len, k) ==
    LET idx == (2 * i * (len - 1) + (k - 1)) \div (2 * (k - 1))
    IN  IF idx >= len THEN len - 1 ELSE idx

Resample(efficient, k) ==
    [i \in 1..k |-> efficient[ResampleIdx(i - 1, Len(efficient), k) + 1]]

\* the end of the extractor: the front as it is when it fits the budget,
\* resampled otherwise
Budgeted(efficient, k) ==
    IF Len(efficient) <= k THEN efficient
    ELSE Resample(efficient, k)

\* variant: the samples are sorted where they are
SortedInPlace(ps) == [arg |-> SortSlice(ps), sorted |-> SortSlice(ps)]

\* sorted := append([]SimulatedPortfolio(nil), sims...) and sort.Slice(sorted):
\* the samples are copied and the copy is sorted; arg is what the argument
\* slice holds afterwards
SortedCopy(ps) == [arg |-> ps, sorted |-> SortSlice(ps)]

computeFrontierLineFromSimulations(ps, k) ==
    IF Len(ps) = 0 THEN <<>>
    ELSE Budgeted(Scan(1, SortedCopy(ps).sorted, InitBestReturn, <<>>), k)

\* the slice passed to computeFrontierLineFromSimulations, as the caller finds
\* it after the call
SimsAfter(ps) == IF Len(ps) = 0 THEN ps ELSE SortedCopy(ps).arg

(***************************************************************************)
(* Arguments the model draws from.                                         *)
(***************************************************************************)
Runs == {1, 2}

AssetCounts == 1..MaxN

\* mean-return vectors of n assets
MeanVectors(n) == [1..n -> {FromInt(k) : k \in 0..MaxMu}]

\* covariance matrices of n assets: the Gram matrices of the n x n matrices
\* of deviations with entries in 0..MaxCov (symmetric, positive semi-definite)
RECURSIVE Dot(_, _, _)
Dot(x, y, k) == IF k = 0 THEN 0 ELSE x[k] * y[k] + Dot(x, y, k - 1)

Gram(dev) ==
    [i \in DOMAIN dev |-> [j \in DOMAIN dev |-> FromInt(Dot(dev[i], dev[j], Len(dev)))]]

CovMatrices(n) == {Gram(dev) : dev \in [1..n -> [1..n -> 0..MaxCov]]}

RiskFreeRates == {FromInt(k) : k \in 0..MaxRf}

\* generator outputs: positive numbers
Streams(len) == [1..len -> 1..MaxDraw]

\* weight vectors of a direct PortfolioStats call: halves, negative included
WeightVectors(n) == [1..n -> {Rat(k, 2) : k \in -1..MaxWNum}]

(***************************************************************************)
(* Initial states.                                                         *)
(***************************************************************************)
InitArgs ==
    /\ \E n \in AssetCounts :
          /\ meanReturns \in MeanVectors(n)
          /\ covMatrix \in CovMatrices(n)
          /\ numSims \in 0..MaxSims
          /\ stream \in Streams(n * numSims)
    /\ riskFreeRate \in RiskFreeRates

InitRuns ==
    /\ pc = [r \in Runs |-> "idle"]
    /\ rng = [r \in Runs |-> NoRng]
    /\ s = [r \in Runs |-> 0]
    /\ sims = [r \in Runs |-> <<>>]
    /\ maxSharpe = [r \in Runs |-> ZeroPortfolio]
    /\ minVar = [r \in Runs |-> ZeroPortfolio]
    /\ result = [r \in Runs |-> NoResult]

\* minVarForReturn is not running
IdleMinVar ==
    /\ mvVariant = "none"
    /\ mvTarget = Zero
    /\ mvW = <<>>
    /\ mvLr = Zero
    /\ mvIter = 0
    /\ mvOut = <<>>

\* the current-portfolio comparison of AnalyzeHandler is not running
IdleCurrent ==
    /\ CurrentPortfolio = <<>>
    /\ validTickers = <<>>
    /\ cpPc = "idle"
    /\ cpWeights = <<>>
    /\ cpSum = Zero
    /\ cpScored = <<>>
    /\ CurrentPortfolioStats = <<>>

\* Returns is not running
IdleReturns ==
    /\ rtPrices = <<>>
    /\ rtOut = <<>>

\* PrepareAssets is not running
IdleAssets ==
    /\ priceData = <<>>
    /\ paPc = "idle"
    /\ allReturns = <<>>
    /\ minLen = 0
    /\ returnMatrix = <<>>
    /\ paMeanReturns = <<>>
    /\ paCovMatrix = <<>>
    /\ paStats = <<>>

\* no request is being handled
IdleHandler ==
    /\ reqTickers = <<>>
    /\ reqYears = 0
    /\ hPc = "idle"
    /\ years = 0
    /\ tickers = <<>>
    /\ spawned = 0
    /\ taskPc = <<>>
    /\ results = <<>>
    /\ wg = 0
    /\ fetched = <<>>
    /\ errMsgs = <<>>
    /\ calls = <<>>
    /\ completion = <<>>
    /\ response = "none"

\* the resampling step is not running on its own
IdleResample ==
    /\ rsEfficient = <<>>
    /\ rsOut = <<>>

\* computeFrontierLine is not running
IdleSweep ==
    /\ minRet = Zero
    /\ maxRet = Zero
    /\ steps = 0
    /\ swPc = "idle"
    /\ swI = 0
    /\ points = <<>>
    /\ swOut = <<>>

\* the operations outside RunMonteCarlo and PortfolioStats are not running
InitExt ==
    /\ IdleMinVar /\ IdleCurrent /\ IdleReturns /\ IdleAssets /\ IdleHandler
    /\ IdleResample /\ IdleSweep

\* RunMonteCarlo and PortfolioStats are not running
IdleMonteCarlo ==
    /\ numSims = 0
    /\ stream = <<>>
    /\ InitRuns
    /\ maxPoints = FrontierBudget
    /\ stWeights = <<>>
    /\ stOut = <<>>

\* the two versions of minVarForReturn
Variants == {"normalizeLast", "clampLast"}

TargetReturns == {Rat(k, 2) : k \in 0..MaxTarget}

\* a call of minVarForReturn of either version
InitMinVarForReturn ==
    /\ \E n \in AssetCounts :
          /\ meanReturns \in MeanVectors(n)
          /\ covMatrix \in CovMatrices(n)
    /\ riskFreeRate = Zero
    /\ IdleMonteCarlo
    /\ IdleSweep
    /\ IdleResample
    /\ mvVariant \in Variants
    /\ mvTarget \in TargetReturns
    /\ mvW = <<>>
    /\ mvLr = Zero
    /\ mvIter = 0
    /\ mvOut = <<>>
    /\ IdleCurrent
    /\ IdleReturns
    /\ IdleAssets
    /\ IdleHandler

\* ticker symbols
TickerOrder == <<"A", "B", "C">>

TickerNames == {TickerOrder[i] : i \in 1..Len(TickerOrder)}

\* caller-supplied maps: any set of tickers, each with a holding in
\* -1..MaxHolding
CurrentPortfolios ==
    UNION {[S -> {FromInt(k) : k \in -1..MaxHolding}] : S \in SUBSET TickerNames}

\* AnalyzeHandler at line 178: two or more tickers were fetched ("A", "B", ...
\* in request order), meanReturns and covMatrix come from PrepareAssets
InitCurrent ==
    /\ \E n \in AssetCounts \ {1} :
          /\ meanReturns \in MeanVectors(n)
          /\ covMatrix \in CovMatrices(n)
          /\ validTickers = [i \in 1..n |-> TickerOrder[i]]
    /\ riskFreeRate = Zero
    /\ IdleMonteCarlo
    /\ IdleSweep
    /\ IdleResample
    /\ IdleMinVar
    /\ CurrentPortfolio \in CurrentPortfolios
    /\ cpPc = "start"
    /\ cpWeights = <<>>
    /\ cpSum = Zero
    /\ cpScored = <<>>
    /\ CurrentPortfolioStats = <<>>
    /\ IdleReturns
    /\ IdleAssets
    /\ IdleHandler

\* RunMonteCarlo, PortfolioStats and their arguments are not in use
NoMonteCarlo ==
    /\ meanReturns = <<>>
    /\ covMatrix = <<>>
    /\ riskFreeRate = Zero
    /\ IdleMonteCarlo
    /\ IdleSweep
    /\ IdleResample

\* the ends of a sweep of target returns: halves, a negative one included
SweepEnds == {Rat(k, 2) : k \in -1..MaxTarget}

SweepCovMatrices(n) ==
    CovMatrices(n) \cup
    {[i \in 1..n |-> [j \in 1..n |-> RMul(FromInt(LargeCov), c[i][j])]] :
        c \in CovMatrices(n)}

\* a call of computeFrontierLine of either version of the optimizer
InitSweep ==
    /\ \E n \in AssetCounts :
          /\ meanReturns \in MeanVectors(n)
          /\ covMatrix \in SweepCovMatrices(n)
    /\ riskFreeRate = Zero
    /\ IdleMonteCarlo
    /\ IdleResample
    /\ mvVariant \in Variants
    /\ mvTarget = Zero
    /\ mvW = <<>>
    /\ mvLr = Zero
    /\ mvIter = 0
    /\ mvOut = <<>>
    /\ minRet \in SweepEnds
    /\ maxRet \in SweepEnds
    /\ steps \in 1..MaxSteps
    /\ swPc = "idle"
    /\ swI = 0
    /\ points = <<>>
    /\ swOut = <<>>
    /\ IdleCurrent
    /\ IdleReturns
    /\ IdleAssets
    /\ IdleHandler

\* strictly positive prices
PositivePrices == {Exp(e) : e \in 0..MaxExp}

\* any float64 a caller can pass as a price: -1 and 0 stand for the
\* non-positive ones
AnyPrices == {FromInt(-1), Zero} \cup PositivePrices

\* the sequences over S of length up to k
SeqsUpTo(S, k) == UNION {[1..m -> S] : m \in 0..k}

\* a call of Returns
InitReturns ==
    /\ NoMonteCarlo
    /\ IdleMinVar
    /\ IdleCurrent
    /\ IdleAssets
    /\ IdleHandler
    /\ rtPrices \in SeqsUpTo(AnyPrices, MaxPrices)
    /\ rtOut = <<>>

\* a call of PrepareAssets on positive closing prices
InitAssets ==
    /\ NoMonteCarlo
    /\ IdleMinVar
    /\ IdleCurrent
    /\ IdleReturns
    /\ IdleHandler
    /\ \E n \in AssetCounts :
          priceData \in [1..n -> SeqsUpTo(PositivePrices, MaxPrices)]
    /\ paPc = "start"
    /\ allReturns = <<>>
    /\ minLen = 0
    /\ returnMatrix = <<>>
    /\ paMeanReturns = <<>>
    /\ paCovMatrix = <<>>
    /\ paStats = <<>>

\* request tickers as the caller types them: empty, blank, lower case, padded
RawTickers == {<<>>, <<" ">>, <<"a">>, <<" ", "A">>, <<"b", " ">>, <<"c">>}

\* a decoded POST request reaching line 69
InitHandler ==
    /\ NoMonteCarlo
    /\ IdleMinVar
    /\ IdleCurrent
    /\ IdleReturns
    /\ IdleAssets
    /\ reqTickers \in SeqsUpTo(RawTickers, MaxTickers)
    /\ reqYears \in {0, 1, YearsLimit + 1}
    /\ hPc = "sanitize"
    /\ years = 0
    /\ tickers = <<>>
    /\ spawned = 0
    /\ taskPc = <<>>
    /\ results = <<>>
    /\ wg = 0
    /\ fetched = <<>>
    /\ errMsgs = <<>>
    /\ calls = <<>>
    /\ completion = <<>>
    /\ response = "none"

\* two calls of RunMonteCarlo on the same arguments, free to interleave
InitConcurrent ==
    /\ \E n \in AssetCounts :
          /\ meanReturns \in MeanVectors(n)
          /\ covMatrix \in CovMatrices(n)
          /\ numSims \in 0..MaxConcSims
          /\ stream \in Streams(n * numSims)
    /\ riskFreeRate \in RiskFreeRates
    /\ InitRuns
    /\ maxPoints = FrontierBudget
    /\ stWeights = <<>>
    /\ stOut = <<>>
    /\ InitExt

\* a filtered front of n points: risk and return strictly increasing, the
\* returns b+1 .. b+n
FrontOf(n, b) ==
    [i \in 1..n |-> [Return  |-> FromInt(b + i),
                     Risk    |-> Sqrt(FromInt(b + i)),
                     Weights |-> <<Rat(i, n), Rat(n - i, n)>>]]

\* the point budgets of the resampling step: small ones and the program's 60
Budgets == (2..MaxBudget) \cup {FrontierBudget}

\* the resampling step on a front of up to MaxFront points or of LongFront
InitResample ==
    /\ rsEfficient \in {FrontOf(n, b) : n \in (0..MaxFront) \cup {LongFront},
                                         b \in 0..MaxMu}
    /\ rsOut = <<>>
    /\ maxPoints \in Budgets
    /\ meanReturns = <<>>
    /\ covMatrix = <<>>
    /\ riskFreeRate = Zero
    /\ numSims = 0
    /\ stream = <<>>
    /\ InitRuns
    /\ stWeights = <<>>
    /\ stOut = <<>>
    /\ IdleMinVar /\ IdleCurrent /\ IdleReturns /\ IdleAssets /\ IdleHandler
    /\ IdleSweep

\* RunMonteCarlo as the program calls it: the frontier budget is 60
Init ==
    /\ InitArgs
    /\ InitRuns
    /\ maxPoints = FrontierBudget
    /\ stWeights = <<>>
    /\ stOut = <<>>
    /\ InitExt

\* the extractor under small point budgets
InitFrontier ==
    /\ InitArgs
    /\ InitRuns
    /\ maxPoints \in 2..MaxPts
    /\ stWeights = <<>>
    /\ stOut = <<>>
    /\ InitExt

\* a direct call of PortfolioStats
InitStats ==
    /\ \E n \in AssetCounts :
          /\ meanReturns \in MeanVectors(n)
          /\ covMatrix \in CovMatrices(n)
          /\ stWeights \in WeightVectors(n)
    /\ riskFreeRate \in RiskFreeRates
    /\ numSims = 0
    /\ stream = <<>>
    /\ InitRuns
    /\ maxPoints = FrontierBudget
    /\ stOut = <<>>
    /\ InitExt

(***************************************************************************)
(* minVarForReturn, the projected-gradient search of the earlier versions  *)
(* of the optimizer.  "normalizeLast" is the version that ends an          *)
(* iteration by dividing by the sum, "clampLast" the one that ends it by   *)
(* clamping negative weights.                                              *)
(***************************************************************************)
\* lr := 0.001 and lr := 0.01
InitialLr(v) == IF v = "normalizeLast" THEN Rat(1, 1000) ELSE Rat(1, 100)

\* const iters
Iters(v) == IF v = "normalizeLast" THEN ItersNormalize ELSE ItersClamp

\* iter%500 == 499 and iter%1000 == 999
DecayPeriod(v) == IF v = "normalizeLast" THEN DecayNormalize ELSE DecayClamp

\* w[i] = 1.0 / float64(n)
EqualWeights(n) == [i \in 1..n |-> Rat(1, n)]

RECURSIVE SumLoop(_, _, _)
SumLoop(i, acc, w) ==
    IF i > Len(w) THEN acc ELSE SumLoop(i + 1, FAdd(acc, w[i]), w)

\* grad[i] += 2 * covMatrix[i][j] * w[j]
RECURSIVE GradInner(_, _, _, _, _)
GradInner(i, j, acc, cov, w) ==
    IF j > Len(w) THEN acc
    ELSE GradInner(i, j + 1,
                   RAdd(acc, RMul(RMul(FromInt(2), cov[i][j]), w[j])), cov, w)

\* w[i] -= lr * grad[i]
GradientStep(w, cov, lr) ==
    [i \in 1..Len(w) |-> RSub(w[i], RMul(lr, GradInner(i, 1, Zero, cov, w)))]

\* if w[i] < 0 { w[i] = 0 }
ClampNegative(w) ==
    [i \in 1..Len(w) |-> IF RLess(w[i], Zero) THEN Zero ELSE w[i]]

\* math.Abs(retDiff) > 1e-8
AboveReturnTol(x) == x.n # 0 /\ x.d \div Abs(x.n) < ReturnTolInverse

\* the thresholds 1e-10 and 1e-12: a rational of the model has a denominator
\* below 2^31, so it is below either threshold only when it is not positive
BelowTiny(x) == x.n <= 0

\* maxIdx: the first asset with the highest mean return
RECURSIVE MaxIdxLoop(_, _, _)
MaxIdxLoop(i, maxIdx, mu) ==
    IF i > Len(mu) THEN maxIdx
    ELSE MaxIdxLoop(i + 1, IF RLess(mu[maxIdx], mu[i]) THEN i ELSE maxIdx, mu)

\* w[maxIdx] += retDiff * 0.1, clamped at zero
ReturnCorrection(w, mu, target) ==
    LET retDiff == RSub(target, RetLoop(1, Zero, w, mu))
        maxIdx == MaxIdxLoop(1, 1, mu)
        moved == RAdd(w[maxIdx], RMul(retDiff, Rat(1, 10)))
    IN  IF AboveReturnTol(retDiff)
        THEN [w EXCEPT ![maxIdx] = IF RLess(moved, Zero) THEN Zero ELSE moved]
        ELSE w

\* one iteration of the version that normalises last; nil when the sum vanishes
StepNormalizeLast(w, mu, cov, target, lr) ==
    LET w1 == ClampNegative(GradientStep(w, cov, lr))
        w2 == ReturnCorrection(w1, mu, target)
        sum == SumLoop(1, Zero, w2)
    IN  IF BelowTiny(sum) THEN [nil |-> TRUE, w |-> <<>>]
        ELSE [nil |-> FALSE, w |-> [i \in 1..Len(w2) |-> RDiv(w2[i], sum)]]

\* mean(meanReturns)
mean(x) == FDiv(SumLoop(1, Zero, x), FromInt(Len(x)))

RECURSIVE SqDiffLoop(_, _, _, _)
SqDiffLoop(i, acc, mu, meanMean) ==
    IF i > Len(mu) THEN acc
    ELSE LET d == RSub(mu[i], meanMean)
         IN  SqDiffLoop(i + 1, RAdd(acc, RMul(d, d)), mu, meanMean)

\* the passes p = 0..9 that pull w to sum one and to the target return
RECURSIVE Project(_, _, _, _)
Project(p, w, mu, target) ==
    IF p = ProjectionPasses THEN w
    ELSE LET n == Len(w)
             shift == RDiv(RSub(FromInt(1), SumLoop(1, Zero, w)), FromInt(n))
             w1 == [i \in 1..n |-> RAdd(w[i], shift)]
             retDiff == RSub(target, RetLoop(1, Zero, w1, mu))
             meanMean == mean(mu)
             sqDiffSum == SqDiffLoop(1, Zero, mu, meanMean)
             w2 == IF BelowTiny(sqDiffSum) THEN w1
                   ELSE [i \in 1..n |->
                            RAdd(w1[i], RDiv(RMul(retDiff, RSub(mu[i], meanMean)),
                                             sqDiffSum))]
         IN  IF retDiff.n = 0 THEN w1 ELSE Project(p + 1, w2, mu, target)

\* one iteration of the version that clamps last; it never returns nil
StepClampLast(w, mu, cov, target, lr) ==
    [nil |-> FALSE,
     w |-> ClampNegative(Project(0, GradientStep(w, cov, lr), mu, target))]

\* return nil
NilWeights == <<>>

\* entry of minVarForReturn
MinVarCall ==
    /\ mvVariant \in Variants
    /\ mvW = <<>>
    /\ mvOut = <<>>
    /\ mvW' = EqualWeights(Len(meanReturns))
    /\ mvLr' = InitialLr(mvVariant)
    /\ mvIter' = 0
    /\ UNCHANGED <<mcVars, swVars, rsVars, cpVars, rtVars, paVars, hdVars, mvVariant, mvTarget, mvOut>>

\* the iterations of a call that the model follows
MaxIters(v) == IF v = "normalizeLast" THEN MaxItersNormalize ELSE MaxItersClamp

\* the loop goes on while iter < iters
MoreIters(iter, v) == iter < Iters(v) /\ iter < MaxIters(v)

\* one iteration of the descent loop, the early return of nil included
MinVarIterate ==
    /\ mvW # <<>>
    /\ mvOut = <<>>
    /\ MoreIters(mvIter, mvVariant)
    /\ LET st == IF mvVariant = "normalizeLast"
                 THEN StepNormalizeLast(mvW, meanReturns, covMatrix, mvTarget, mvLr)
                 ELSE StepClampLast(mvW, meanReturns, covMatrix, mvTarget, mvLr)
       IN  IF st.nil
           THEN /\ mvOut' = <<NilWeights>>
                /\ UNCHANGED <<mvW, mvLr, mvIter>>
           ELSE /\ mvW' = st.w
                /\ mvLr' = IF mvIter % DecayPeriod(mvVariant) = DecayPeriod(mvVariant) - 1
                           THEN RMul(mvLr, Rat(1, 2)) ELSE mvLr
                /\ mvIter' = mvIter + 1
                /\ mvOut' = mvOut
    /\ UNCHANGED <<mcVars, swVars, rsVars, cpVars, rtVars, paVars, hdVars, mvVariant, mvTarget>>

\* return w
MinVarReturn ==
    /\ mvW # <<>>
    /\ mvOut = <<>>
    /\ ~MoreIters(mvIter, mvVariant)
    /\ mvOut' = <<mvW>>
    /\ UNCHANGED <<mcVars, swVars, rsVars, cpVars, rtVars, paVars, hdVars, mvVariant, mvTarget, mvW, mvLr, mvIter>>

(***************************************************************************)
(* computeFrontierLine, the sweep of target returns of the two gradient    *)
(* versions of the optimizer (the same code in both).  Its calls of        *)
(* minVarForReturn are the actions above.                                  *)
(***************************************************************************)
\* points := make([]FrontierPoint, 0, steps)
SweepCall ==
    /\ swPc = "idle"
    /\ swOut = <<>>
    /\ points' = <<>>
    /\ swI' = 0
    /\ swPc' = "target"
    /\ UNCHANGED <<mcVars, rsVars, mvVars, cpVars, rtVars, paVars, hdVars,
                   minRet, maxRet, steps, swOut>>

\* targetRet := minRet + (maxRet-minRet)*float64(i)/float64(steps)
TargetRet(i) ==
    RAdd(minRet, RDiv(RMul(RSub(maxRet, minRet), FromInt(i)), FromInt(steps)))

\* i <= steps: the call minVarForReturn(meanReturns, covMatrix, targetRet)
SweepTarget ==
    /\ swPc = "target"
    /\ swI <= steps
    /\ mvTarget' = TargetRet(swI)
    /\ mvW' = <<>>
    /\ mvLr' = Zero
    /\ mvIter' = 0
    /\ mvOut' = <<>>
    /\ swPc' = "solve"
    /\ UNCHANGED <<mcVars, rsVars, cpVars, rtVars, paVars, hdVars, mvVariant,
                   minRet, maxRet, steps, swI, points, swOut>>

\* minVarForReturn runs for the target
SweepSolve ==
    /\ swPc = "solve"
    /\ (MinVarCall \/ MinVarIterate \/ MinVarReturn)

\* variant: a nil result is taken for a weight vector
SkippedNever(w) == FALSE

\* if w == nil { continue }
Skipped(w) == w = NilWeights

\* FrontierPoint{Return: ret, Risk: vol, Weights: w}
SweepPoint(w) ==
    LET st == PortfolioStats(w, meanReturns, covMatrix, riskFreeRate)
    IN  [Return |-> st.ret, Risk |-> st.vol, Weights |-> w]

\* the rest of the loop body once minVarForReturn has returned
SweepCollect ==
    /\ swPc = "solve"
    /\ mvOut # <<>>
    /\ points' = IF Skipped(mvOut[1]) THEN points
                 ELSE Append(points, SweepPoint(mvOut[1]))
    /\ swI' = swI + 1
    /\ swPc' = "target"
    /\ UNCHANGED <<mcVars, rsVars, mvVars, cpVars, rtVars, paVars, hdVars,
                   minRet, maxRet, steps, swOut>>

\* return points
SweepReturn ==
    /\ swPc = "target"
    /\ swI > steps
    /\ swOut' = <<points>>
    /\ swPc' = "done"
    /\ UNCHANGED <<mcVars, rsVars, mvVars, cpVars, rtVars, paVars, hdVars,
                   minRet, maxRet, steps, swI, points>>

(***************************************************************************)
(* The current-portfolio comparison of AnalyzeHandler.                     *)
(***************************************************************************)
\* req.CurrentPortfolio[t]: the zero value for a ticker the map lacks
Holding(m, t) == IF t \in DOMAIN m THEN m[t] ELSE Zero

\* len(req.CurrentPortfolio)
MapLen(m) == Cardinality(DOMAIN m)

\* math.IsNaN on a float64 held as a rational or as a surd
IsNaN(x) == x = NaN \/ x = [n |-> 0, d |-> 0]

\* lines 179-186: the holdings of the valid tickers and their sum
ReadCurrent ==
    /\ cpPc = "start"
    /\ IF MapLen(CurrentPortfolio) > 0
       THEN LET w == [i \in 1..Len(validTickers) |->
                         Holding(CurrentPortfolio, validTickers[i])]
            IN  /\ cpWeights' = w
                /\ cpSum' = SumLoop(1, Zero, w)
                /\ cpPc' = "summed"
       ELSE /\ cpPc' = "done"
            /\ UNCHANGED <<cpWeights, cpSum>>
    /\ UNCHANGED <<mcVars, swVars, rsVars, mvVars, rtVars, paVars, hdVars, CurrentPortfolio, validTickers, cpScored,
                   CurrentPortfolioStats>>

\* weights[i] /= sum
NormalizeCurrent(w, sum) == [i \in 1..Len(w) |-> RDiv(w[i], sum)]

\* lines 187-201: normalise, score and report when the sum is positive
ScoreCurrent ==
    /\ cpPc = "summed"
    /\ IF RLess(Zero, cpSum)
       THEN LET w == NormalizeCurrent(cpWeights, cpSum)
                st == PortfolioStats(w, meanReturns, covMatrix, riskFreeRate)
            IN  /\ cpWeights' = w
                /\ cpScored' = Append(cpScored, w)
                /\ CurrentPortfolioStats' =
                       IF ~IsNaN(st.ret) /\ ~IsNaN(st.vol)
                       THEN <<SimulatedPortfolio(w, st.ret, st.vol, st.sharpe)>>
                       ELSE <<>>
       ELSE UNCHANGED <<cpWeights, cpScored, CurrentPortfolioStats>>
    /\ cpPc' = "done"
    /\ UNCHANGED <<mcVars, swVars, rsVars, mvVars, rtVars, paVars, hdVars, CurrentPortfolio, validTickers, cpSum>>

(***************************************************************************)
(* Returns and PrepareAssets.  Log-returns, and everything computed from   *)
(* them, are in units of ln 2.                                             *)
(***************************************************************************)
\* variant: the ratio is taken the other way round
ReturnAtInverted(prices, i) == Log(FDiv(prices[i], prices[i + 1]))

\* ret[i-1] = math.Log(prices[i] / prices[i-1]), the indices counted from one
ReturnAt(prices, i) == Log(FDiv(prices[i + 1], prices[i]))

\* make([]float64, len(prices)-1) panics on a negative length
Returns(prices) ==
    IF Len(prices) = 0 THEN [kind |-> "panic", ret |-> <<>>]
    ELSE [kind |-> "series",
          ret |-> [i \in 1..(Len(prices) - 1) |-> ReturnAt(prices, i)]]

\* a call of Returns
ReturnsCall ==
    /\ rtOut = <<>>
    /\ rtOut' = <<Returns(rtPrices)>>
    /\ UNCHANGED <<mcVars, swVars, rsVars, mvVars, cpVars, paVars, hdVars, rtPrices>>

\* if len(r) < minLen { minLen = len(r) }
RECURSIVE MinLenLoop(_, _, _)
MinLenLoop(i, m, rs) ==
    IF i > Len(rs) THEN m
    ELSE MinLenLoop(i + 1, IF Len(rs[i]) < m THEN Len(rs[i]) ELSE m, rs)

\* lines 135-143: the return series of every asset and the shortest length
BuildReturns ==
    /\ paPc = "start"
    /\ LET out == [i \in 1..Len(priceData) |-> Returns(priceData[i])]
       IN  IF \E i \in 1..Len(priceData) : out[i].kind = "panic"
           THEN /\ paPc' = "panic"
                /\ UNCHANGED <<allReturns, minLen>>
           ELSE /\ allReturns' = [i \in 1..Len(priceData) |-> out[i].ret]
                /\ minLen' = MinLenLoop(1, MaxInt32, allReturns')
                /\ paPc' = "trim"
    /\ UNCHANGED <<mcVars, swVars, rsVars, mvVars, cpVars, rtVars, hdVars, priceData, returnMatrix,
                   paMeanReturns, paCovMatrix, paStats>>

\* variant: the oldest returns are kept
TrimHead(r, k) == SubSeq(r, 1, k)

\* r[len(r)-minLen:]
Trim(r, k) == SubSeq(r, Len(r) - k + 1, Len(r))

\* lines 146-149: every series is cut to minLen
TrimSeries ==
    /\ paPc = "trim"
    /\ returnMatrix' = [i \in 1..Len(allReturns) |-> Trim(allReturns[i], minLen)]
    /\ paPc' = "stats"
    /\ UNCHANGED <<mcVars, swVars, rsVars, mvVars, cpVars, rtVars, hdVars, priceData, allReturns, minLen,
                   paMeanReturns, paCovMatrix, paStats>>

\* variance += d * d
RECURSIVE VarianceLoop(_, _, _, _)
VarianceLoop(k, acc, r, m) ==
    IF k > Len(r) THEN acc
    ELSE LET d == FSub(r[k], m)
         IN  VarianceLoop(k + 1, FAdd(acc, FMul(d, d)), r, m)

\* lines 162-167
Variance(r, m, len) == FDiv(VarianceLoop(1, Zero, r, m), FromInt(len - 1))

\* cov += (returnMatrix[i][k] - mi) * (returnMatrix[j][k] - mj)
RECURSIVE CovLoop(_, _, _, _, _, _, _)
CovLoop(k, len, acc, ri, rj, mi, mj) ==
    IF k > len THEN acc
    ELSE CovLoop(k + 1, len,
                 FAdd(acc, FMul(FSub(ri[k], mi), FSub(rj[k], mj))),
                 ri, rj, mi, mj)

\* lines 182-189: cov / float64(minLen-1) * tradingDays
Covariance(ri, rj, len) ==
    FMul(FDiv(CovLoop(1, len, Zero, ri, rj, mean(ri), mean(rj)), FromInt(len - 1)),
         FromInt(TradingDays))

\* variant: the lower triangle keeps the zero that make put there
CovEntryUpperOnly(i, j, rm, len) ==
    IF i <= j THEN Covariance(rm[i], rm[j], len) ELSE Zero

\* covMatrix[i][j] = cov; covMatrix[j][i] = cov, for j >= i
CovEntry(i, j, rm, len) ==
    IF i <= j THEN Covariance(rm[i], rm[j], len) ELSE Covariance(rm[j], rm[i], len)

\* lines 151-195: means, per-asset statistics and the covariance matrix
ComputeStats ==
    /\ paPc = "stats"
    /\ LET n == Len(priceData)
           m == [i \in 1..n |-> mean(returnMatrix[i])]
       IN  /\ paMeanReturns' = [i \in 1..n |-> FMul(m[i], FromInt(TradingDays))]
           /\ paStats' =
                  [i \in 1..n |->
                      LET variance == Variance(returnMatrix[i], m[i], minLen)
                      IN  [AnnualReturn |-> FMul(m[i], FromInt(TradingDays)),
                           Variance |-> variance,
                           AnnualVolatility |->
                               Sqrt(FMul(variance, FromInt(TradingDays)))]]
           /\ paCovMatrix' =
                  [i \in 1..n |-> [j \in 1..n |-> CovEntry(i, j, returnMatrix, minLen)]]
    /\ paPc' = "done"
    /\ UNCHANGED <<mcVars, swVars, rsVars, mvVars, cpVars, rtVars, hdVars, priceData, allReturns, minLen,
                   returnMatrix>>

(***************************************************************************)
(* AnalyzeHandler from the ticker checks to the response.  A ticker is a   *)
(* sequence of characters.  PrepareAssets and RunMonteCarlo are recorded   *)
(* in calls when the handler calls them.                                   *)
(***************************************************************************)
LowerCase == <<"a", "b", "c">>

UpperCase == <<"A", "B", "C">>

\* strings.ToUpper
ToUpper(str) ==
    [i \in 1..Len(str) |->
        IF \E k \in 1..Len(LowerCase) : LowerCase[k] = str[i]
        THEN UpperCase[CHOOSE k \in 1..Len(LowerCase) : LowerCase[k] = str[i]]
        ELSE str[i]]

\* strings.TrimSpace
RECURSIVE TrimSpace(_)
TrimSpace(str) ==
    IF Len(str) = 0 THEN str
    ELSE IF str[1] = " " THEN TrimSpace(Tail(str))
    ELSE IF str[Len(str)] = " " THEN TrimSpace(SubSeq(str, 1, Len(str) - 1))
    ELSE str

\* lines 90-98: the distinct non-empty tickers, upper-cased, in request order
RECURSIVE DedupLoop(_, _, _)
DedupLoop(i, out, req) ==
    IF i > Len(req) THEN out
    ELSE LET up == ToUpper(TrimSpace(req[i]))
         IN  DedupLoop(i + 1,
                       IF up # <<>> /\ \A k \in 1..Len(out) : out[k] # up
                       THEN Append(out, up) ELSE out,
                       req)

\* writeError and return
Fail ==
    /\ response' = "error"
    /\ hPc' = "done"

\* the zero fetchResult that make puts in every slot
ZeroResult == [err |-> FALSE, pd |-> <<>>, idx |-> 0]

\* lines 69-107: ticker count and years checks, de-duplication, result slots
Sanitize ==
    /\ hPc = "sanitize"
    /\ IF Len(reqTickers) < MinTickers \/ Len(reqTickers) > TickerLimit
       THEN Fail /\ UNCHANGED <<years, tickers, results>>
       ELSE /\ years' = IF reqYears < 1 THEN DefaultYears ELSE reqYears
            /\ IF years' > YearsLimit
               THEN Fail /\ UNCHANGED <<tickers, results>>
               ELSE /\ tickers' = DedupLoop(1, <<>>, reqTickers)
                    /\ results' = [i \in 1..Len(tickers') |-> ZeroResult]
                    /\ hPc' = "spawn"
                    /\ UNCHANGED response
    /\ UNCHANGED <<mcVars, swVars, rsVars, mvVars, cpVars, rtVars, paVars, completion,
                   reqTickers, reqYears,
                   spawned, taskPc, wg, fetched, errMsgs, calls>>

\* lines 110-117, one iteration: wg.Add(1) and the go statement
Spawn ==
    /\ hPc = "spawn"
    /\ spawned < Len(tickers)
    /\ wg' = wg + 1
    /\ spawned' = spawned + 1
    /\ taskPc' = Append(taskPc, "fetch")
    /\ UNCHANGED <<mcVars, swVars, rsVars, mvVars, cpVars, rtVars, paVars, completion,
                   reqTickers, reqYears,
                   hPc, years, tickers, results, fetched, errMsgs, calls, response>>

\* variant: a goroutine stores its result in the first slot not yet written
SlotByCompletion(i) == Len(completion) + 1

\* results[i] = ...: the slot goroutine i stores its result in
Slot(i) == i

\* lines 114-115 in goroutine i: FetchPrices succeeds or fails, and the
\* outcome is stored in the goroutine's own slot
Fetch(i) ==
    /\ i <= Len(taskPc)
    /\ taskPc[i] = "fetch"
    /\ \E ok \in BOOLEAN :
          results' = [results EXCEPT ![Slot(i)] =
                         IF ok THEN [err |-> FALSE, pd |-> <<tickers[i]>>, idx |-> i]
                         ELSE [err |-> TRUE, pd |-> <<>>, idx |-> i]]
    /\ taskPc' = [taskPc EXCEPT ![i] = "deferred"]
    /\ completion' = Append(completion, i)
    /\ UNCHANGED <<mcVars, swVars, rsVars, mvVars, cpVars, rtVars, paVars,
                   reqTickers, reqYears,
                   hPc, years, tickers, spawned, wg, fetched, errMsgs, calls,
                   response>>

\* line 113 in goroutine i: the deferred wg.Done()
TaskDone(i) ==
    /\ i <= Len(taskPc)
    /\ taskPc[i] = "deferred"
    /\ wg' = wg - 1
    /\ taskPc' = [taskPc EXCEPT ![i] = "done"]
    /\ UNCHANGED <<mcVars, swVars, rsVars, mvVars, cpVars, rtVars, paVars, completion,
                   reqTickers, reqYears,
                   hPc, years, tickers, spawned, results, fetched, errMsgs, calls,
                   response>>

\* variant: the handler does not wait
WaitSkipped(counter) == TRUE

\* wg.Wait() returns when the counter is zero
WaitOver(counter) == counter = 0

\* line 118
Wait ==
    /\ hPc = "spawn"
    /\ spawned = Len(tickers)
    /\ WaitOver(wg)
    /\ hPc' = "collect"
    /\ UNCHANGED <<mcVars, swVars, rsVars, mvVars, cpVars, rtVars, paVars, completion,
                   reqTickers, reqYears,
                   years, tickers, spawned, taskPc, results, wg, fetched, errMsgs,
                   calls, response>>

\* lines 125-140: r.pd.Partial on a nil pd is a nil dereference
RECURSIVE CollectLoop(_, _, _, _)
CollectLoop(i, acc, res, tks) ==
    IF i > Len(res) \/ acc.panic THEN acc
    ELSE CollectLoop(i + 1,
             IF res[i].err
             THEN [acc EXCEPT !.errMsgs = Append(@, tks[res[i].idx])]
             ELSE IF res[i].pd = <<>>
                  THEN [acc EXCEPT !.panic = TRUE]
                  ELSE [acc EXCEPT !.priceData = Append(@, res[i].pd[1]),
                                   !.validTickers = Append(@, tks[res[i].idx])],
             res, tks)

\* lines 121-140: the slots are read
Collect ==
    /\ hPc = "collect"
    /\ LET out == CollectLoop(1, [panic |-> FALSE, errMsgs |-> <<>>,
                                  priceData |-> <<>>, validTickers |-> <<>>],
                              results, tickers)
       IN  IF out.panic
           THEN /\ hPc' = "panic"
                /\ UNCHANGED <<fetched, errMsgs, validTickers>>
           ELSE /\ fetched' = out.priceData
                /\ errMsgs' = out.errMsgs
                /\ validTickers' = out.validTickers
                /\ hPc' = "check"
    /\ UNCHANGED <<mcVars, swVars, rsVars, mvVars, cpLocals, rtVars, paVars, completion,
                   reqTickers, reqYears,
                   years, tickers, spawned, taskPc, results, wg, calls, response>>

\* variant: one asset is taken to be enough
EnoughDataOne(count) == count >= 1

\* the negation of len(priceData) < 2
EnoughData(count) == ~(count < MinTickers)

\* lines 142-149
CheckEnough ==
    /\ hPc = "check"
    /\ IF EnoughData(Len(fetched))
       THEN hPc' = "prepare" /\ UNCHANGED response
       ELSE Fail
    /\ UNCHANGED <<mcVars, swVars, rsVars, mvVars, cpVars, rtVars, paVars, completion,
                   reqTickers, reqYears,
                   years, tickers, spawned, taskPc, results, wg, fetched, errMsgs,
                   calls>>

\* line 152
Prepare ==
    /\ hPc = "prepare"
    /\ calls' = Append(calls, "PrepareAssets")
    /\ hPc' = "optimize"
    /\ UNCHANGED <<mcVars, swVars, rsVars, mvVars, cpVars, rtVars, paVars, completion,
                   reqTickers, reqYears,
                   years, tickers, spawned, taskPc, results, wg, fetched, errMsgs,
                   response>>

\* lines 161-204: RunMonteCarlo, then the response is encoded
Optimize ==
    /\ hPc = "optimize"
    /\ calls' = Append(calls, "RunMonteCarlo")
    /\ response' = "ok"
    /\ hPc' = "done"
    /\ UNCHANGED <<mcVars, swVars, rsVars, mvVars, cpVars, rtVars, paVars, completion,
                   reqTickers, reqYears,
                   years, tickers, spawned, taskPc, results, wg, fetched, errMsgs>>

(***************************************************************************)
(* RunMonteCarlo.                                                          *)
(***************************************************************************)
\* entry: rng, sims, maxSharpe, minVar are created
Enter(r) ==
    /\ pc[r] = "idle"
    /\ pc' = [pc EXCEPT ![r] = "loop"]
    /\ rng' = [rng EXCEPT ![r] = NewSource(Seed)]
    /\ s' = [s EXCEPT ![r] = 0]
    /\ sims' = [sims EXCEPT ![r] = <<>>]
    /\ maxSharpe' = [maxSharpe EXCEPT ![r] = InitMaxSharpe]
    /\ minVar' = [minVar EXCEPT ![r] = InitMinVar]
    /\ UNCHANGED <<meanReturns, covMatrix, riskFreeRate, numSims, maxPoints,
                   stream, result, stWeights, stOut>>
    /\ UNCHANGED extVars

\* a call made when the earlier runs are over
Call(r) ==
    /\ \A q \in Runs : q < r => pc[q] = "done"
    /\ Enter(r)

\* variant: the loop runs once more
MoreSimsInclusive(i, n) == i <= n

\* the loop condition s < numSims
MoreSims(i, n) == i < n

\* variant: the comparison is turned around
UpdateMaxSharpeReversed(cur, sp) == IF SLess(sp.Sharpe, cur.Sharpe) THEN sp ELSE cur

\* variant: a sample that equals the best Sharpe ratio replaces it
UpdateMaxSharpeOnTie(cur, sp) == IF SLeq(cur.Sharpe, sp.Sharpe) THEN sp ELSE cur

\* if sharpe > maxSharpe.Sharpe { maxSharpe = sp }
UpdateMaxSharpe(cur, sp) == IF SLess(cur.Sharpe, sp.Sharpe) THEN sp ELSE cur

\* variant: the latest sample always replaces the lowest-risk one
UpdateMinVarLatest(cur, sp) == sp

\* if vol < minVar.Risk { minVar = sp }
UpdateMinVar(cur, sp) == IF SLess(sp.Risk, cur.Risk) THEN sp ELSE cur

\* one iteration of the draw loop
Iterate(r) ==
    /\ pc[r] = "loop"
    /\ MoreSims(s[r], numSims)
    /\ LET rw == randomWeights(Len(meanReturns), rng[r])
           st == PortfolioStats(rw.w, meanReturns, covMatrix, riskFreeRate)
           sp == SimulatedPortfolio(rw.w, st.ret, st.vol, st.sharpe)
       IN  /\ rng' = [rng EXCEPT ![r] = rw.rng]
           /\ sims' = [sims EXCEPT ![r] = Append(@, sp)]
           /\ maxSharpe' = [maxSharpe EXCEPT ![r] = UpdateMaxSharpe(@, sp)]
           /\ minVar' = [minVar EXCEPT ![r] = UpdateMinVar(@, sp)]
    /\ s' = [s EXCEPT ![r] = @ + 1]
    /\ UNCHANGED <<meanReturns, covMatrix, riskFreeRate, numSims, maxPoints,
                   stream, pc, result, stWeights, stOut>>
    /\ UNCHANGED extVars

\* after the loop: the frontier is extracted and the result returned
Return(r) ==
    /\ pc[r] = "loop"
    /\ ~MoreSims(s[r], numSims)
    /\ sims' = [sims EXCEPT ![r] = SimsAfter(@)]
    /\ result' = [result EXCEPT ![r] =
                     [MonteCarloPoints |-> sims'[r],
                      FrontierPoints |->
                          computeFrontierLineFromSimulations(sims[r], maxPoints),
                      MaxSharpe |-> maxSharpe[r],
                      MinVariance |-> minVar[r]]]
    /\ pc' = [pc EXCEPT ![r] = "done"]
    /\ UNCHANGED <<meanReturns, covMatrix, riskFreeRate, numSims, maxPoints,
                   stream, rng, s, maxSharpe, minVar, stWeights, stOut>>
    /\ UNCHANGED extVars

\* a direct call of PortfolioStats on stWeights
Score ==
    /\ stWeights # <<>>
    /\ stOut = <<>>
    /\ stOut' = <<PortfolioStats(stWeights, meanReturns, covMatrix, riskFreeRate)>>
    /\ UNCHANGED <<meanReturns, covMatrix, riskFreeRate, numSims, maxPoints,
                   stream, pc, rng, s, sims, maxSharpe, minVar, result, stWeights>>
    /\ UNCHANGED extVars

Next == \E r \in Runs : Call(r) \/ Iterate(r) \/ Return(r)

NextStats == Score

Spec == Init /\ [][Next]_vars

\* one call of RunMonteCarlo
NextFrontier == Call(1) \/ Iterate(1) \/ Return(1)

SpecFrontier == InitFrontier /\ [][NextFrontier]_vars

SpecStats == InitStats /\ [][NextStats]_vars

NextMinVar == MinVarCall \/ MinVarIterate \/ MinVarReturn

SpecMinVar == InitMinVarForReturn /\ [][NextMinVar]_vars

NextCurrent == ReadCurrent \/ ScoreCurrent

SpecCurrent == InitCurrent /\ [][NextCurrent]_vars

NextReturns == ReturnsCall

SpecReturns == InitReturns /\ [][NextReturns]_vars

NextAssets == BuildReturns \/ TrimSeries \/ ComputeStats

SpecAssets == InitAssets /\ [][NextAssets]_vars

NextHandler ==
    \/ Sanitize
    \/ Spawn
    \/ \E i \in 1..MaxTickers : Fetch(i) \/ TaskDone(i)
    \/ Wait
    \/ Collect
    \/ CheckEnough
    \/ Prepare
    \/ Optimize

SpecHandler == InitHandler /\ [][NextHandler]_vars

\* the runs are goroutines of concurrent requests
NextConcurrent == \E r \in Runs : Enter(r) \/ Iterate(r) \/ Return(r)

SpecConcurrent == InitConcurrent /\ [][NextConcurrent]_vars

\* lines 497-511 of computeFrontierLineFromSimulations, on the front the
\* scan has built
ResampleCall ==
    /\ rsOut = <<>>
    /\ rsOut' = <<Budgeted(rsEfficient, maxPoints)>>
    /\ UNCHANGED <<mcVars, swVars, mvVars, cpVars, rtVars, paVars, hdVars, rsEfficient>>

NextSweep ==
    \/ SweepCall
    \/ SweepTarget
    \/ SweepSolve
    \/ SweepCollect
    \/ SweepReturn

SpecSweep == InitSweep /\ [][NextSweep]_vars

NextResample == ResampleCall

SpecResample == InitResample /\ [][NextResample]_vars

(***************************************************************************)
(* Properties.                                                             *)
(***************************************************************************)
\* the sum of f over the finite set S
RECURSIVE SumOver(_, _)
SumOver(f, S) ==
    IF S = {} THEN Zero
    ELSE LET x == CHOOSE y \in S : TRUE
         IN  RAdd(f[x], SumOver(f, S \ {x}))

Range(q) == {q[i] : i \in DOMAIN q}

\* a weight vector of n non-negative weights that sum to one
OnSimplex(w, n) ==
    /\ Len(w) = n
    /\ \A i \in 1..n : RLeq(Zero, w[i])
    /\ SumOver(w, 1..n) = FromInt(1)

\* the scenario of TestPortfolioStats
ScenarioStats ==
    PortfolioStats(<<Rat(1, 2), Rat(1, 2)>>,
                   <<Rat(1, 10), Rat(1, 5)>>,
                   <<<<Rat(1, 25), Rat(1, 100)>>, <<Rat(1, 100), Rat(9, 100)>>>>,
                   Rat(1, 20))

\* C1: PortfolioStats returns ret = sum_i weights[i]*meanReturns[i] and
\* vol = sqrt(sum_i sum_j weights[i]*weights[j]*covMatrix[i][j]), for every
\* weight vector and covariance matrix of matching size; the test scenario
\* gives return 0.15 and variance 0.0375.
C1_StatsQuadraticForm ==
    /\ stOut # <<>> =>
          LET n == Len(stWeights)
              terms == [i \in 1..n |-> RMul(stWeights[i], meanReturns[i])]
              quad == [p \in (1..n) \X (1..n) |->
                          RMul(RMul(stWeights[p[1]], stWeights[p[2]]),
                               covMatrix[p[1]][p[2]])]
              total == SumOver(quad, (1..n) \X (1..n))
          IN  /\ stOut[1].ret = SumOver(terms, 1..n)
              /\ RLeq(Zero, total)
              /\ stOut[1].vol.sgn >= 0
              /\ stOut[1].vol.sq = total
    /\ ScenarioStats.ret = Rat(15, 100)
    /\ ScenarioStats.vol = [sgn |-> 1, sq |-> Rat(375, 10000)]

\* C1 witness: a scored two-asset vector whose cross terms count
C1_Witness ==
    /\ stOut # <<>>
    /\ Len(stWeights) = 2
    /\ stWeights[1].n < 0
    /\ stWeights[2].n > 0
    /\ covMatrix[1][2] # Zero
    /\ covMatrix[1][1] # covMatrix[2][2]
    /\ stOut[1].vol.sgn = 1

\* C2: sharpe = (ret - riskFreeRate)/vol when vol > 0 and 0 otherwise; a
\* zero-variance portfolio has Sharpe exactly 0, never an infinite or
\* undefined value, whatever the sign of ret - riskFreeRate.
C2_SharpeConvention ==
    stOut # <<>> =>
        LET o == stOut[1]
            excess == RSub(o.ret, riskFreeRate)
        IN  /\ o.sharpe # NaN
            /\ o.sharpe.sq.d # 0
            /\ SLess(SZero, o.vol) =>
                  /\ o.sharpe.sgn = Sign(excess.n)
                  /\ RMul(o.sharpe.sq, o.vol.sq) = RMul(excess, excess)
            /\ ~SLess(SZero, o.vol) => o.sharpe = SZero

\* C2 witness: a zero-variance portfolio with a negative excess return
C2_Witness ==
    /\ stOut # <<>>
    /\ stOut[1].vol = SZero
    /\ RLess(stOut[1].ret, riskFreeRate)
    /\ stOut[1].sharpe = SZero

\* the run r has sampled at least one portfolio
Sampling(r) == pc[r] \in {"loop", "done"} /\ Len(sims[r]) >= 1

\* the k-th block of n generator outputs
DrawBlock(k, n) == [i \in 1..n |-> FromInt(stream[(k - 1) * n + i])]

\* C3: RunMonteCarlo returns exactly numSims entries in MonteCarloPoints,
\* one per draw (entry k holds the k-th drawn weight vector), for every
\* simulation count numSims >= 0.
C3_ExactlyNumSimsPoints ==
    \A r \in Runs : pc[r] = "done" =>
        LET pts == result[r].MonteCarloPoints
            n == Len(meanReturns)
        IN  /\ Len(pts) = numSims
            /\ \A k \in 1..Len(pts) : \A i \in 1..n :
                  RMul(pts[k].Weights[i], SumOver(DrawBlock(k, n), 1..n))
                      = DrawBlock(k, n)[i]

\* C3 witness: a finished run of the largest simulation count
C3_Witness ==
    /\ pc[1] = "done"
    /\ numSims = MaxSims
    /\ Len(result[1].MonteCarloPoints) = MaxSims

\* C4: once a run has drawn at least one sample, its MaxSharpe portfolio is
\* one of the sampled portfolios and no sampled Sharpe ratio exceeds it:
\* after every prefix of the draw loop and in the returned result.
C4_MaxSharpeIsBest ==
    \A r \in Runs :
        /\ Sampling(r) =>
              /\ maxSharpe[r] \in Range(sims[r])
              /\ \A k \in 1..Len(sims[r]) :
                    SLeq(sims[r][k].Sharpe, maxSharpe[r].Sharpe)
        /\ pc[r] = "done" /\ numSims >= 1 =>
              /\ result[r].MaxSharpe \in Range(result[r].MonteCarloPoints)
              /\ \A k \in 1..Len(result[r].MonteCarloPoints) :
                    SLeq(result[r].MonteCarloPoints[k].Sharpe,
                         result[r].MaxSharpe.Sharpe)

\* C4 witness: the best Sharpe ratio is that of the second of three draws
C4_Witness ==
    /\ pc[1] = "done"
    /\ Len(result[1].MonteCarloPoints) = 3
    /\ result[1].MaxSharpe = result[1].MonteCarloPoints[2]
    /\ SLess(result[1].MonteCarloPoints[1].Sharpe, result[1].MaxSharpe.Sharpe)
    /\ SLess(result[1].MonteCarloPoints[3].Sharpe, result[1].MaxSharpe.Sharpe)

\* C5: after RunMonteCarlo with numSims >= 1 the MinVariance portfolio is
\* one of the sampled portfolios and no sampled Risk is below its Risk.
C5_MinVarianceIsLowest ==
    \A r \in Runs : pc[r] = "done" /\ numSims >= 1 =>
        /\ result[r].MinVariance \in Range(result[r].MonteCarloPoints)
        /\ \A k \in 1..Len(result[r].MonteCarloPoints) :
              SLeq(result[r].MinVariance.Risk, result[r].MonteCarloPoints[k].Risk)

\* C5 witness: the lowest risk is that of the second of three draws
C5_Witness ==
    /\ pc[1] = "done"
    /\ Len(result[1].MonteCarloPoints) = 3
    /\ result[1].MinVariance = result[1].MonteCarloPoints[2]
    /\ SLess(result[1].MinVariance.Risk, result[1].MonteCarloPoints[1].Risk)
    /\ SLess(result[1].MinVariance.Risk, result[1].MonteCarloPoints[3].Risk)

\* C6: every weight vector the sampler produces has length n, entries >= 0
\* and sum 1, for every n >= 1 and every sequence of positive draws.
C6_SampledWeightsOnSimplex ==
    \A r \in Runs :
        /\ \A k \in 1..Len(sims[r]) :
              OnSimplex(sims[r][k].Weights, Len(meanReturns))
        /\ \A k \in 1..Len(result[r].MonteCarloPoints) :
              OnSimplex(result[r].MonteCarloPoints[k].Weights, Len(meanReturns))

\* C6 witness: a returned two-asset vector with unequal weights
C6_Witness ==
    /\ pc[1] = "done"
    /\ Len(meanReturns) = 2
    /\ Len(result[1].MonteCarloPoints) >= 2
    /\ LET w == result[1].MonteCarloPoints[2].Weights
       IN  RLess(w[1], w[2])

\* C7: two runs of RunMonteCarlo on identical arguments return identical
\* output: the same MonteCarloPoints in the same order, the same
\* FrontierPoints, MaxSharpe and MinVariance.
C7_RunsAreDeterministic ==
    pc[1] = "done" /\ pc[2] = "done" => result[1] = result[2]

\* C7 witness: both runs are over, after draws that differ from one another
C7_Witness ==
    /\ pc[1] = "done"
    /\ pc[2] = "done"
    /\ numSims >= 2
    /\ result[2].MonteCarloPoints[1].Weights # result[2].MonteCarloPoints[2].Weights
    /\ Len(result[2].FrontierPoints) >= 2

\* the non-dominated front of the run r before any resampling
Front(r) == Scan(1, SortSlice(sims[r]), NegInf, <<>>)

\* C8: in every frontier computeFrontierLineFromSimulations returns, risk is
\* non-decreasing along the sequence and no pair i < j has
\* risk[i] >= risk[j] and return[i] > return[j]; whether the front is
\* returned as is or resampled to maxPoints.
C8_FrontierOrdered ==
    pc[1] = "done" =>
        LET f == result[1].FrontierPoints
        IN  \A i, j \in 1..Len(f) : i < j =>
                /\ SLeq(f[i].Risk, f[j].Risk)
                /\ ~(SLeq(f[j].Risk, f[i].Risk) /\ RLess(f[j].Return, f[i].Return))

\* C8 witness: a front of more than maxPoints points was resampled
C8_Witness ==
    /\ pc[1] = "done"
    /\ Len(Front(1)) > maxPoints
    /\ Len(result[1].FrontierPoints) = maxPoints
    /\ SLess(result[1].FrontierPoints[1].Risk, result[1].FrontierPoints[2].Risk)

\* C9: the frontier never holds two points of the same risk and different
\* return, and holds no dominated point: no sampled portfolio has
\* equal-or-lower risk and strictly higher return than an emitted point,
\* also when several samples share the same risk.
C9_NoDominatedPoint ==
    pc[1] = "done" =>
        LET f == result[1].FrontierPoints
            pts == result[1].MonteCarloPoints
        IN  /\ \A i, j \in 1..Len(f) :
                  f[i].Risk = f[j].Risk => f[i].Return = f[j].Return
            /\ \A i \in 1..Len(f) : \A k \in 1..Len(pts) :
                  ~(SLeq(pts[k].Risk, f[i].Risk) /\ RLess(f[i].Return, pts[k].Return))

\* C10: every FrontierPoint emitted is one of the input samples (same return,
\* risk and weights), hence has non-negative weights that sum to one.
C10_FrontierPointsAreSamples ==
    pc[1] = "done" =>
        LET f == result[1].FrontierPoints
            pts == sims[1]
        IN  \A i \in 1..Len(f) :
                /\ \E k \in 1..Len(pts) :
                      /\ f[i].Return = pts[k].Return
                      /\ f[i].Risk = pts[k].Risk
                      /\ f[i].Weights = pts[k].Weights
                /\ OnSimplex(f[i].Weights, Len(meanReturns))

\* C10 witness: a resampled frontier whose points have different weights
C10_Witness ==
    /\ pc[1] = "done"
    /\ Len(Front(1)) > maxPoints
    /\ Len(result[1].FrontierPoints) >= 2
    /\ result[1].FrontierPoints[1].Weights # result[1].FrontierPoints[2].Weights


\* C11: every weight vector that minVarForReturn returns, in either version,
\* has no negative weight and weights that sum to one.
C11_ReturnedWeightsOnSimplex ==
    mvOut # <<>> /\ mvOut[1] # NilWeights
        => OnSimplex(mvOut[1], Len(meanReturns))

\* C12: the current-portfolio comparison scores, and reports as
\* current_portfolio_stats, only weight vectors without a negative weight
\* whose weights sum to one, whatever map the caller sent.
C12_CurrentWeightsOnSimplex ==
    /\ \A i \in DOMAIN cpScored : OnSimplex(cpScored[i], Len(validTickers))
    /\ CurrentPortfolioStats # <<>>
           => OnSimplex(CurrentPortfolioStats[1].Weights, Len(validTickers))

C14_TailAlignment ==
    paPc \in {"stats", "done"} =>
        LET n == Len(priceData)
            series == [i \in 1..n |-> Returns(priceData[i]).ret]
        IN  /\ \E i \in 1..n : Len(series[i]) = minLen
            /\ \A i \in 1..n : minLen <= Len(series[i])
            /\ \A i \in 1..n :
                  /\ Len(returnMatrix[i]) = minLen
                  /\ \A k \in 1..minLen :
                        returnMatrix[i][k] = series[i][Len(series[i]) - minLen + k]
                  /\ Len(series[i]) = minLen => returnMatrix[i] = series[i]

\* a longer series loses its oldest return, and its head differs from its tail
C14_Witness ==
    /\ paPc = "done"
    /\ Len(priceData) = 2
    /\ minLen = 2
    /\ Len(allReturns[1]) = 3
    /\ Len(allReturns[2]) = 2
    /\ returnMatrix[1] = SubSeq(allReturns[1], 2, 3)
    /\ returnMatrix[1] # SubSeq(allReturns[1], 1, 2)
    /\ returnMatrix[2] = allReturns[2]

\* C15: when every asset has two or more strictly positive prices, two
\* exactly included, the variances, volatilities and covariances that
\* PrepareAssets returns are finite numbers.
C15_FiniteStatistics ==
    paPc = "done" /\ (\A i \in 1..Len(priceData) : Len(priceData[i]) >= 2) =>
        /\ \A i \in 1..Len(paStats) :
              /\ paStats[i].Variance.d # 0
              /\ paStats[i].AnnualVolatility # NaN
              /\ paStats[i].AnnualVolatility.sq.d # 0
        /\ \A i, j \in 1..Len(paCovMatrix) : paCovMatrix[i][j].d # 0

\* prices rebuilt from the first price and the returns: each price is the one
\* before it times the exponential of the return
RECURSIVE Reconstruct(_, _, _)
Reconstruct(built, ret, i) ==
    IF i > Len(ret) THEN built
    ELSE Reconstruct(Append(built, RMul(built[Len(built)], Exp(ret[i].n))), ret, i + 1)

StrictlyPositive(prices) == \A i \in 1..Len(prices) : RLess(Zero, prices[i])

\* C16: on two or more strictly positive prices Returns yields one return
\* fewer than there are prices, the i-th being the log of price i+1 over
\* price i, and the first price times the successive exponentials of the
\* returns gives the prices back.
C16_ReturnsRoundTrip ==
    rtOut # <<>> /\ Len(rtPrices) >= 2 /\ StrictlyPositive(rtPrices) =>
        /\ rtOut[1].kind = "series"
        /\ Len(rtOut[1].ret) = Len(rtPrices) - 1
        /\ \A i \in 1..Len(rtOut[1].ret) :
              /\ rtOut[1].ret[i].d = 1
              /\ RMul(rtPrices[i], Exp(rtOut[1].ret[i].n)) = rtPrices[i + 1]
        /\ Reconstruct(<<rtPrices[1]>>, rtOut[1].ret, 1) = rtPrices

\* four positive prices that rise and fall
C16_Witness ==
    /\ rtOut # <<>>
    /\ Len(rtPrices) = 4
    /\ StrictlyPositive(rtPrices)
    /\ Len(rtOut[1].ret) = 3
    /\ \E i, j \in 1..3 : rtOut[1].ret[i].n > 0 /\ rtOut[1].ret[j].n < 0
    /\ Reconstruct(<<rtPrices[1]>>, rtOut[1].ret, 1) = rtPrices

\* C17: given fewer than two prices, or a price that is not positive, Returns
\* fails and returns no return series (any failure counts as the
\* InvalidInputError here, the panic on an empty input included).
C17_InvalidInputRejected ==
    rtOut # <<>> /\ (Len(rtPrices) < 2 \/ ~StrictlyPositive(rtPrices))
        => rtOut[1].kind # "series"

\* the result slots that hold fetched data
ValidSlots == {i \in 1..Len(results) : ~results[i].err /\ results[i].pd # <<>>}

\* the distinct tickers a request names, blanks aside
NamedTickers == {ToUpper(TrimSpace(reqTickers[i])) : i \in 1..Len(reqTickers)} \ {<<>>}

\* C18: the handler calls PrepareAssets and RunMonteCarlo and answers with a
\* result exactly when two or more tickers were fetched; otherwise it answers
\* with an error and calls neither, whatever fetches fail and also when the
\* request names fewer than two distinct tickers.
C18_ProceedsIffTwoValid ==
    /\ calls # <<>> => Cardinality(ValidSlots) >= 2
    /\ hPc = "done" =>
          /\ response = "ok" <=> Cardinality(ValidSlots) >= 2
          /\ response = "ok" => calls = <<"PrepareAssets", "RunMonteCarlo">>
          /\ response # "ok" => response = "error" /\ calls = <<>>
          /\ Cardinality(NamedTickers) < 2 => response = "error"

\* three tickers, one fetch failed, the request went through
C18_Witness ==
    /\ hPc = "done"
    /\ response = "ok"
    /\ Len(tickers) = 3
    /\ \E i \in 1..3 : results[i].err
    /\ Cardinality(ValidSlots) = 2
    /\ calls = <<"PrepareAssets", "RunMonteCarlo">>

\* C19: there is one fetch goroutine per ticker, the WaitGroup counts those
\* still running, and once the handler is past wg.Wait(), where it reads the
\* slots and calls PrepareAssets, every goroutine has written its slot and
\* finished.
C19_JoinedBeforeRead ==
    /\ Len(taskPc) = spawned
    /\ spawned <= Len(tickers)
    /\ wg = Cardinality({i \in 1..Len(taskPc) : taskPc[i] # "done"})
    /\ hPc \notin {"idle", "sanitize", "spawn"} =>
          /\ spawned = Len(tickers)
          /\ \A i \in 1..Len(tickers) : taskPc[i] = "done" /\ results[i] # ZeroResult

\* the handler reads three slots, filled by goroutines that have all finished
C19_Witness ==
    /\ hPc = "collect"
    /\ Len(tickers) = 3
    /\ \A i \in 1..3 : taskPc[i] = "done" /\ results[i] # ZeroResult
    /\ \E i, j \in 1..3 : results[i].err /\ ~results[j].err

\* what one call of RunMonteCarlo returns when nothing else runs: the loop
\* from sample k on, on a generator of its own
RECURSIVE AloneLoop(_, _, _, _, _)
AloneLoop(k, g, acc, best, low) ==
    IF k >= numSims
    THEN [MonteCarloPoints |-> acc,
          FrontierPoints |-> computeFrontierLineFromSimulations(acc, maxPoints),
          MaxSharpe |-> best,
          MinVariance |-> low]
    ELSE LET rw == randomWeights(Len(meanReturns), g)
             st == PortfolioStats(rw.w, meanReturns, covMatrix, riskFreeRate)
             sp == SimulatedPortfolio(rw.w, st.ret, st.vol, st.sharpe)
         IN  AloneLoop(k + 1, rw.rng, Append(acc, sp),
                       IF SLess(best.Sharpe, sp.Sharpe) THEN sp ELSE best,
                       IF SLess(sp.Risk, low.Risk) THEN sp ELSE low)

RunAlone ==
    AloneLoop(0, [seed |-> Seed, pos |-> 0], <<>>, InitMaxSharpe, InitMinVar)

\* C20: however two calls of RunMonteCarlo on the same inputs interleave, each
\* returns what a call running alone returns, and no step changes
\* meanReturns or covMatrix.
C20_RunsDoNotInterfere ==
    /\ [](\A r \in Runs : pc[r] = "done" => result[r] = RunAlone)
    /\ [][meanReturns' = meanReturns /\ covMatrix' = covMatrix]_vars

\* both runs are in their loops, one sample apart, each on its own generator
C20_Witness ==
    /\ numSims = 2
    /\ Len(meanReturns) = 2
    /\ pc[1] = "loop"
    /\ pc[2] = "loop"
    /\ s[1] = 1
    /\ s[2] = 2
    /\ rng[1].pos # rng[2].pos
    /\ sims[2][1] = sims[1][1]
    /\ sims[2][2] # sims[2][1]

\* C21: the comparisons of the draw loop are strict, so the MaxSharpe
\* returned is the first sample in draw order whose Sharpe ratio no sample
\* exceeds, and the MinVariance returned is the first whose risk no sample
\* undercuts.
C21_FirstExtremeWins ==
    \A r \in Runs : pc[r] = "done" /\ numSims >= 1 =>
        LET pts == result[r].MonteCarloPoints
        IN  /\ \E k \in 1..Len(pts) :
                  /\ result[r].MaxSharpe = pts[k]
                  /\ \A j \in 1..Len(pts) : SLeq(pts[j].Sharpe, pts[k].Sharpe)
                  /\ \A j \in 1..(k - 1) : SLess(pts[j].Sharpe, pts[k].Sharpe)
            /\ \E k \in 1..Len(pts) :
                  /\ result[r].MinVariance = pts[k]
                  /\ \A j \in 1..Len(pts) : SLeq(pts[k].Risk, pts[j].Risk)
                  /\ \A j \in 1..(k - 1) : SLess(pts[k].Risk, pts[j].Risk)

\* the second and third draws tie for the best Sharpe ratio and for the
\* lowest risk with weights of their own; the second is reported
C21_Witness ==
    /\ pc[1] = "done"
    /\ Len(result[1].MonteCarloPoints) = 3
    /\ LET pts == result[1].MonteCarloPoints
       IN  /\ pts[2].Weights # pts[3].Weights
           /\ pts[2].Sharpe = pts[3].Sharpe
           /\ SLess(pts[1].Sharpe, pts[2].Sharpe)
           /\ result[1].MaxSharpe = pts[2]

\* the place of an output point in the filtered front (the points of a front
\* are distinct: their returns strictly increase)
PlaceIn(front, p) == CHOOSE j \in 1..Len(front) : front[j] = p

\* C22: a filtered front of more than K = maxPoints points is resampled to
\* exactly K points taken from the front itself at strictly increasing
\* places, so that none is emitted twice, at an even stride (two gaps between
\* consecutive places differ by at most one), the first being the first point
\* of the front and the last its last point; a front of at most K points is
\* returned unchanged.
C22_ResampleEvenStride ==
    rsOut # <<>> =>
        LET out == rsOut[1]
            len == Len(rsEfficient)
        IN  IF len <= maxPoints THEN out = rsEfficient
            ELSE /\ Len(out) = maxPoints
                 /\ \A i \in 1..maxPoints :
                       \E j \in 1..len : out[i] = rsEfficient[j]
                 /\ out[1] = rsEfficient[1]
                 /\ out[maxPoints] = rsEfficient[len]
                 /\ \A i \in 1..(maxPoints - 1) :
                       PlaceIn(rsEfficient, out[i]) < PlaceIn(rsEfficient, out[i + 1])
                 /\ \A i, j \in 1..(maxPoints - 1) :
                       (PlaceIn(rsEfficient, out[i + 1]) - PlaceIn(rsEfficient, out[i]))
                       - (PlaceIn(rsEfficient, out[j + 1]) - PlaceIn(rsEfficient, out[j]))
                       <= 1

\* a front of 12 points resampled to 10: the stride 11/9 is rounded to gaps of
\* one and of two
C22_Witness ==
    /\ rsOut # <<>>
    /\ Len(rsEfficient) = MaxFront
    /\ maxPoints = MaxBudget
    /\ Len(rsOut[1]) = maxPoints
    /\ rsOut[1][2] = rsEfficient[2]
    /\ \E i \in 1..(maxPoints - 1) :
          /\ rsOut[1][i] = rsEfficient[i]
          /\ rsOut[1][i + 1] = rsEfficient[i + 2]

\* a weight vector that carries mass: one weight per asset, none negative,
\* with a positive sum
HasMass(w) ==
    /\ Len(w) = Len(meanReturns)
    /\ \A i \in 1..Len(w) : w[i].d > 0 /\ w[i].n >= 0
    /\ SumOver(w, 1..Len(w)).n > 0

\* the sweep goes on to the next target without a new point
SkipsTarget ==
    /\ points' = points
    /\ swI' = swI + 1
    /\ swPc' = "target"

\* C23: in the sweep of target returns, a target for which minVarForReturn
\* finds no weight mass is reported infeasible (nil) and computeFrontierLine
\* skips it and goes on with the next target; the sweep runs through all its
\* targets and returns its points, and every point it emits carries a weight
\* vector with positive mass (never nil, all-zero or undefined).
C23_InfeasibleTargetSkipped ==
    /\ [](/\ \A k \in 1..Len(points) : HasMass(points[k].Weights)
          /\ Len(points) <= swI
          /\ swPc = "done" => swI = steps + 1 /\ swOut = <<points>>)
    /\ [][swPc = "solve" /\ mvOut # <<>> /\ ~HasMass(mvOut[1])
              => mvOut[1] = NilWeights /\ SkipsTarget]_vars

\* a sweep of the normalising version that skipped a target and still
\* returned a point of a later target
C23_Witness ==
    /\ swPc = "done"
    /\ mvVariant = "normalizeLast"
    /\ Len(swOut[1]) >= 1
    /\ Len(swOut[1]) < steps + 1
    /\ RLess(minRet, Zero)
    /\ RLess(Zero, maxRet)

\* the portfolio of the k-th draw: the k-th block of generator outputs divided
\* by its sum, with its statistics
DrawnPortfolio(k) ==
    LET n == Len(meanReturns)
        blk == DrawBlock(k, n)
        sum == SumOver(blk, 1..n)
        w == [i \in 1..n |-> RDiv(blk[i], sum)]
        st == PortfolioStats(w, meanReturns, covMatrix, riskFreeRate)
    IN  SimulatedPortfolio(w, st.ret, st.vol, st.sharpe)

\* C24: extracting the frontier leaves the samples alone: in the result of
\* RunMonteCarlo, MonteCarloPoints is in draw order, its entry k being the
\* portfolio of the k-th draw with its weights, return, risk and Sharpe ratio,
\* although the frontier is built from the samples sorted by risk.
C24_SamplesKeepDrawOrder ==
    \A r \in Runs : pc[r] = "done" =>
        /\ Len(result[r].MonteCarloPoints) = numSims
        /\ \A k \in 1..numSims : result[r].MonteCarloPoints[k] = DrawnPortfolio(k)
        /\ sims[r] = result[r].MonteCarloPoints

\* three draws whose order by risk is not their draw order, with a frontier
\* that starts at the second draw
C24_Witness ==
    /\ pc[1] = "done"
    /\ Len(result[1].MonteCarloPoints) = 3
    /\ SLess(result[1].MonteCarloPoints[2].Risk, result[1].MonteCarloPoints[1].Risk)
    /\ SLess(result[1].MonteCarloPoints[2].Risk, result[1].MonteCarloPoints[3].Risk)
    /\ Len(result[1].FrontierPoints) >= 2
    /\ result[1].FrontierPoints[1].Weights = result[1].MonteCarloPoints[2].Weights

\* C25: for numSims >= 1 the frontier RunMonteCarlo returns is not empty, its
\* first point has the risk of MinVariance, the lowest sampled risk, and its
\* last point has the highest return of all samples, whether the front is
\* returned as it is or resampled to the point budget.
C25_FrontierEndpoints ==
    pc[1] = "done" /\ numSims >= 1 =>
        LET f == result[1].FrontierPoints
            pts == result[1].MonteCarloPoints
        IN  /\ Len(f) >= 1
            /\ f[1].Risk = result[1].MinVariance.Risk
            /\ \A k \in 1..Len(pts) :
                  /\ SLeq(f[1].Risk, pts[k].Risk)
                  /\ RLeq(pts[k].Return, f[Len(f)].Return)
            /\ \E k \in 1..Len(pts) : pts[k].Return = f[Len(f)].Return

\* a front of three points resampled to two, the first draw being neither its
\* first nor its last point
C25_Witness ==
    /\ pc[1] = "done"
    /\ numSims = 3
    /\ Len(Front(1)) = 3
    /\ maxPoints = 2
    /\ Len(result[1].FrontierPoints) = 2
    /\ result[1].FrontierPoints[1].Weights # result[1].MonteCarloPoints[1].Weights
    /\ result[1].FrontierPoints[2].Weights # result[1].MonteCarloPoints[1].Weights

\* the handler has read the slots, or has answered without fetching
SlotsRead == hPc \in {"check", "prepare", "optimize", "done"}

\* where the request first names the ticker t
FirstNamed(t) ==
    CHOOSE i \in 1..Len(reqTickers) :
        /\ ToUpper(TrimSpace(reqTickers[i])) = t
        /\ \A j \in 1..(i - 1) : ToUpper(TrimSpace(reqTickers[j])) # t

\* C26: a fetch goroutine writes its own slot of results and no other, so no
\* slot is written by two of them; and once the slots are read, the valid
\* tickers and the price data handed to the engine are the distinct tickers
\* of the request, in the order the request first names them, less those
\* whose fetch failed, in whatever order the fetches completed.
C26_OwnSlotRequestOrder ==
    /\ [](/\ \A j \in 1..Len(results) :
                results[j] # ZeroResult =>
                    /\ j <= Len(taskPc)
                    /\ taskPc[j] # "fetch"
                    /\ results[j].idx = j
          /\ \A a, b \in 1..Len(tickers) :
                a < b => FirstNamed(tickers[a]) < FirstNamed(tickers[b])
          /\ SlotsRead =>
                /\ Len(validTickers) = Cardinality(ValidSlots)
                /\ {validTickers[k] : k \in 1..Len(validTickers)}
                       = {tickers[i] : i \in ValidSlots}
                /\ \A a, b \in 1..Len(validTickers) :
                      a < b => PlaceIn(tickers, validTickers[a])
                                   < PlaceIn(tickers, validTickers[b])
                /\ fetched = validTickers)
    /\ [][\A j \in 1..Len(results) :
              Len(results') = Len(results) /\ results'[j] # results[j] =>
                  /\ j <= Len(taskPc)
                  /\ taskPc[j] = "fetch"
                  /\ taskPc'[j] = "deferred"
                  /\ \A k \in 1..Len(results) : k # j => results'[k] = results[k]]_vars

\* three fetches that completed last ticker first, the second having failed:
\* the answer lists the first ticker and the third, in that order
C26_Witness ==
    /\ hPc = "done"
    /\ response = "ok"
    /\ Len(tickers) = 3
    /\ completion = <<3, 1, 2>>
    /\ results[2].err
    /\ validTickers = <<tickers[1], tickers[3]>>
    /\ fetched = validTickers

=============================================================================
